---------------------------- MODULE Spec2Model ----------------------------
(***************************************************************************)
(* Model of convert.py: the conversion of a radiosonde CSV log into a      *)
(* .windsond table and a .geojson feature collection.                      *)
(*                                                                         *)
(* Number representation.  Python floats are modelled by integers:         *)
(*   - angles (radians and degrees), sines, cosines, temperatures, vapour  *)
(*     pressures, logarithms and the dew point are fixed-point numbers     *)
(*     with Scale units per 1.0;                                           *)
(*   - timestamps and delta are whole seconds, distance is whole metres,   *)
(*     speed is the whole number distance*1000/delta;                      *)
(*   - row fields (Time, Lat/PosX, Long/PosY, Alt/PosZ, Baro, AirT, RH)    *)
(*     are whole numbers in the units of the CSV file.                     *)
(* Division truncates. The math library functions are series or bisection  *)
(* over these fixed-point numbers; each keeps the exact values the float   *)
(* functions have at 0 (sin 0 = 0, cos 0 = 1, asin 0 = 0, atan2(0,0) = 0,  *)
(* exp 0 = 1, log 1 = 0) and log raises on a non-positive argument.        *)
(***************************************************************************)
EXTENDS Integers, Sequences, FiniteSets, TLC

\* One, in fixed point.
Scale == 10 * 1000

\* math.pi in fixed point (3.1416).
PI == 31416

Abs(a) == IF a < 0 THEN -a ELSE a

\* a / b on floats, truncated to a whole number of units (b # 0).
Div(a, b) ==
    LET q == Abs(a) \div Abs(b)
    IN  IF (a < 0) = (b < 0) THEN q ELSE -q

\* <<quotient, remainder>> of a * b by c for a, b >= 0 and c > 0, by halving
\* b, so that no intermediate value exceeds 2 * c + a.
RECURSIVE MulDivNat(_, _, _)
MulDivNat(a, b, c) ==
    IF b = 0 THEN <<0, 0>>
    ELSE LET h  == MulDivNat(a, b \div 2, c)
             q2 == 2 * h[1] + ((2 * h[2]) \div c)
             r2 == (2 * h[2]) % c
             r3 == IF b % 2 = 1 THEN r2 + (a % c) ELSE r2
             q3 == IF b % 2 = 1 THEN q2 + (a \div c) ELSE q2
         IN  <<q3 + (r3 \div c), r3 % c>>

\* a * b / c on floats, truncated (c # 0).
MulDiv(a, b, c) ==
    LET q == MulDivNat(Abs(a), Abs(b), Abs(c))[1]
    IN  IF ((a < 0) = (b < 0)) = (c > 0) THEN q ELSE -q

\* a * b on fixed-point numbers.
Mul(a, b) == MulDiv(a, b, Scale)

\* math.radians: whole degrees to fixed-point radians.
radians(d) == Div(d * PI, 180)

\* math.degrees: fixed-point radians to fixed-point degrees.
degrees(x) == MulDiv(x * 180, Scale, PI)

\* Sum of the sine series from the given term on: term - term*x2/(k(k+1)) + ...
RECURSIVE Series(_, _, _)
Series(term, x2, k) ==
    IF term = 0 THEN 0
    ELSE term + Series(-Div(Mul(term, x2), k * (k + 1)), x2, k + 2)

\* x brought into [-PI, PI] by whole turns.
Wrap(x) ==
    LET m == x % (2 * PI)
    IN  IF m > PI THEN m - 2 * PI ELSE m

\* math.sin of a fixed-point angle in radians.
sin(x) ==
    LET w == Wrap(x)
        a == Abs(w)
        f == IF 2 * a > PI THEN PI - a ELSE a
        s == Series(f, Mul(f, f), 2)
    IN  IF w < 0 THEN -s ELSE s

\* math.cos of a fixed-point angle in radians.
cos(x) ==
    LET a == Abs(Wrap(x))
        f == IF 2 * a > PI THEN PI - a ELSE a
        c == Series(Scale, Mul(f, f), 1)
    IN  IF 2 * a > PI THEN -c ELSE c

\* The largest n in lo..hi with n * n <= v (lo * lo <= v).
RECURSIVE IsqrtIn(_, _, _)
IsqrtIn(v, lo, hi) ==
    IF lo >= hi THEN lo
    ELSE LET mid == (lo + hi + 1) \div 2
         IN  IF mid * mid <= v THEN IsqrtIn(v, mid, hi)
             ELSE IsqrtIn(v, lo, mid - 1)

\* math.sqrt, of a number in [0, 4] given in Scale * Scale units (the square
\* of a fixed-point number, not yet scaled back); the root is fixed-point.
sqrt(v) == IsqrtIn(v, 0, 2 * Scale)

\* The largest angle t in lo..hi (within [0, PI/2]) with sin(t) <= v.
RECURSIVE AsinIn(_, _, _)
AsinIn(v, lo, hi) ==
    IF lo >= hi THEN lo
    ELSE LET mid == (lo + hi + 1) \div 2
         IN  IF sin(mid) <= v THEN AsinIn(v, mid, hi)
             ELSE AsinIn(v, lo, mid - 1)

\* math.asin of a fixed-point number in [-1, 1], in fixed-point radians.
asin(v) ==
    IF v = 0 THEN 0
    ELSE IF v < 0 THEN -AsinIn(-v, 0, PI \div 2)
    ELSE AsinIn(v, 0, PI \div 2)

\* The largest angle t in lo..hi (within [0, PI/2]) with
\* y * cos(t) - x * sin(t) >= 0, for x, y >= 0: the angle of the point (x, y).
RECURSIVE AtanIn(_, _, _, _)
AtanIn(y, x, lo, hi) ==
    IF lo >= hi THEN lo
    ELSE LET mid == (lo + hi + 1) \div 2
         IN  IF y * cos(mid) - x * sin(mid) >= 0 THEN AtanIn(y, x, mid, hi)
             ELSE AtanIn(y, x, lo, mid - 1)

\* math.atan2(y, x) in fixed-point radians, in (-PI, PI]; atan2(0, 0) = 0.
atan2(y, x) ==
    IF y = 0 THEN (IF x >= 0 THEN 0 ELSE PI)
    ELSE LET t == IF x = 0 THEN PI \div 2
                  ELSE AtanIn(Abs(y), Abs(x), 0, PI \div 2)
             q == IF x >= 0 THEN t ELSE PI - t
         IN  IF y < 0 THEN -q ELSE q

\* Sum of the exponential series from the given term on, for x >= 0.
RECURSIVE ExpSeries(_, _, _)
ExpSeries(term, x, k) ==
    IF term = 0 THEN 0
    ELSE term + ExpSeries(Div(Mul(term, x), k), x, k + 1)

\* math.exp of a fixed-point number.
exp(x) ==
    IF x >= 0 THEN ExpSeries(Scale, x, 1)
    ELSE MulDiv(Scale, Scale, ExpSeries(Scale, -x, 1))

\* Sum z + z^3/3 + z^5/5 + ... from the given power on.
RECURSIVE AtanhSeries(_, _, _)
AtanhSeries(pow, z2, k) ==
    IF pow = 0 THEN 0
    ELSE Div(pow, k) + AtanhSeries(Mul(pow, z2), z2, k + 2)

\* The exceptions a run can end with ("" is none).
ValueError == "ValueError: math domain error"
ZeroDivisionError == "ZeroDivisionError: float division by zero"
KeyError == "KeyError"
FileNotFoundError == "FileNotFoundError"

\* The outcome of an expression: the value it returns, or the exception it
\* raises.
Returns(v) == [raised |-> "", value |-> v]
Raises(exc) == [raised |-> exc, value |-> 0]

\* math.log of a fixed-point number: ValueError for v <= 0, else the
\* logarithm, as 2 * atanh((v - 1) / (v + 1)).
log(v) ==
    IF v <= 0 THEN Raises(ValueError)
    ELSE LET z == MulDiv(v - Scale, Scale, v + Scale)
         IN  Returns(2 * AtanhSeries(z, Mul(z, z), 1))

\* Constants for the Tetens equation, in fixed point (17.625 and 243.04).
A == 176250
B == 2430400

\* The Magnus coefficient 6.112 hPa, in fixed point.
Es0 == 61120

\* calculate_dew_point: the dew point in fixed-point degrees Celsius of a
\* temperature in whole degrees and a relative humidity in whole percent, or
\* the exception math.log raises. The pressure is not used.
calculate_dew_point(pressure, temperature, relative_humidity) ==
    LET t  == temperature * Scale
        es == Mul(Es0, exp(MulDiv(A, t, B + t)))
        e  == MulDiv(es, relative_humidity, 100)
        l  == log(MulDiv(e, Scale, Es0))
    IN  IF l.raised # "" THEN l
        ELSE Returns(MulDiv(B, l.value, A - l.value))

\* compute_bearing: the bearing in fixed-point degrees, in [0, 360), from
\* point 1 to point 2 (whole degrees).
compute_bearing(lat1, lon1, lat2, lon2) ==
    LET rlat1 == radians(lat1)
        rlon1 == radians(lon1)
        rlat2 == radians(lat2)
        rlon2 == radians(lon2)
        y == Mul(sin(rlon2 - rlon1), cos(rlat2))
        x == Mul(cos(rlat1), sin(rlat2))
               - Mul(Mul(sin(rlat1), cos(rlat2)), cos(rlon2 - rlon1))
        initial_bearing == degrees(atan2(y, x))
    IN  (initial_bearing + 360 * Scale) % (360 * Scale)

\* Radius of the earth in metres.
r == 6371000

\* haversine: the great circle distance in whole metres between two points
\* (whole degrees). a, a sum of squares of small sines, is carried unscaled
\* (in Scale * Scale units) into sqrt.
haversine(lat1, lon1, lat2, lon2) ==
    LET rlat1 == radians(lat1)
        rlon1 == radians(lon1)
        rlat2 == radians(lat2)
        rlon2 == radians(lon2)
        dlat == rlat2 - rlat1
        dlon == rlon2 - rlon1
        sdlat == sin(Div(dlat, 2))
        sdlon == sin(Div(dlon, 2))
        a == sdlat * sdlat + MulDiv(Mul(cos(rlat1), cos(rlat2)), sdlon * sdlon, Scale)
        c == 2 * asin(sqrt(a))
    IN  MulDiv(c, r, Scale)

\* The .1f format of a number v given in units of 1/unit: <<negative, whole
\* part, tenth>>, rounded half up.
Fmt1(v, unit) ==
    LET w == Abs(v) \div unit
        t == ((Abs(v) % unit) * 10 + unit \div 2) \div unit
    IN  IF t = 10 THEN <<v < 0, w + 1, 0>> ELSE <<v < 0, w, t>>

\* The header line of the .windsond file.
Header == "Height[m]  Pressure[hPa]  Temperature[C]  Dewpoint[C]  Wind direction[deg]  Wind speed[m/s]"

\* The number of rows a DataFrame of the model has at most.
MaxRows == 3

\* The rows a DataFrame of the model is made of: whole seconds, whole degrees
\* (91 is a footer row's latitude, 90 the largest latitude that is not
\* skipped), and three atmospheres <<Alt/PosZ, Baro, AirT, RH>>, one of them
\* with a relative humidity of 0. Every time and every position occurs with
\* the first atmosphere, and with all three at the position <<11, 21>>.
Times == {0, 10, 20}
Positions == {<<10, 20>>, <<11, 21>>, <<90, 20>>, <<91, 20>>}
Atmospheres == {<<100, 1000, 20, 50>>, <<110, 999, 19, 55>>, <<120, 998, 18, 0>>}
Row(t, p, a) ==
    [Time |-> t, Lat |-> p[1], Long |-> p[2],
     Alt |-> a[1], Baro |-> a[2], AirT |-> a[3], RH |-> a[4]]
Rows ==
    {Row(t, p, a) : t \in Times, p \in Positions, a \in {<<100, 1000, 20, 50>>}}
    \cup {Row(t, p, a) : t \in Times, p \in {<<11, 21>>}, a \in Atmospheres}

\* The values of haversine, compute_bearing and calculate_dew_point on the
\* positions and atmospheres of the model, computed once (<<>> @@ f is f,
\* built as an explicit table).
HaversineOf ==
    <<>> @@ [p \in Positions \X Positions |-> haversine(p[1][1], p[1][2], p[2][1], p[2][2])]
BearingOf ==
    <<>> @@ [p \in Positions \X Positions |-> compute_bearing(p[1][1], p[1][2], p[2][1], p[2][2])]
DewPointOf ==
    <<>> @@ [a \in Atmospheres |-> calculate_dew_point(a[2], a[3], a[4])]

VARIABLES
    pc,         \* where the script is
    argc,       \* len(sys.argv)
    readable,   \* whether pd.read_csv can read the input file
    columns,    \* whether the input file has the expected columns
    writable,   \* <<the .windsond path can be opened for writing, the .geojson path>>
    df,         \* the rows of the DataFrame the loop has taken so far
    wsFile,     \* the .windsond file: "absent", "open" or "closed"
    gjFile,     \* the .geojson file: "absent", "open" or "closed"
    ws,         \* the lines written to the .windsond file
    gj,         \* the documents written to the .geojson file
    features,   \* the list features
    src,        \* for each feature, the index in df of the row it was made from
    lasttime, lastlat, lastlon, distance, bearing, speed, dew_point,
    delta,      \* the delta of the last row that was not skipped
    exc,        \* the exception that is propagating or ended the run ("" is none)
    status      \* the exit status (-1 while running)

env == <<argc, readable, columns, writable>>
files == <<wsFile, gjFile, ws, gj>>
carried == <<lasttime, lastlat, lastlon, distance, bearing, speed, dew_point>>
locals == <<features, src, carried, delta>>
vars == <<pc, env, df, files, locals, exc, status>>

SystemExit == "SystemExit"
PermissionError == "PermissionError"

\* The start of the script: nothing read, no output file, and the locals of
\* dataframe_to_geojson, which do not exist before the call, at 0.
Init ==
    /\ pc = "start"
    /\ argc \in 1..3
    /\ readable \in BOOLEAN
    /\ columns \in BOOLEAN
    /\ writable \in BOOLEAN \X BOOLEAN
    /\ df = <<>>
    /\ wsFile = "absent" /\ gjFile = "absent"
    /\ ws = <<>> /\ gj = <<>>
    /\ features = <<>> /\ src = <<>>
    /\ lasttime = 0 /\ lastlat = 0 /\ lastlon = 0
    /\ distance = 0 /\ bearing = 0 /\ speed = 0 /\ dew_point = 0
    /\ delta = 0
    /\ exc = ""
    /\ status = -1

\* if len(sys.argv) != 2: print usage; sys.exit(1)
CheckUsage ==
    /\ pc = "start"
    /\ IF argc # 2
       THEN pc' = "exited" /\ exc' = SystemExit /\ status' = 1
       ELSE pc' = "read_csv" /\ UNCHANGED <<exc, status>>
    /\ UNCHANGED <<env, df, files, locals>>

\* df = pd.read_csv(filename, ...): an input file that cannot be read ends
\* the script with the exception.
ReadCsv ==
    /\ pc = "read_csv"
    /\ IF readable
       THEN pc' = "open_ws" /\ UNCHANGED <<exc, status>>
       ELSE pc' = "exited" /\ exc' = FileNotFoundError /\ status' = 1
    /\ UNCHANGED <<env, df, files, locals>>

\* with open(replace_extension(filename, "windsond"), 'w') as ws:
OpenWs ==
    /\ pc = "open_ws"
    /\ IF writable[1]
       THEN pc' = "open_gj" /\ wsFile' = "open" /\ ws' = <<>>
            /\ UNCHANGED <<exc, status>>
       ELSE pc' = "exited" /\ exc' = PermissionError /\ status' = 1
            /\ UNCHANGED <<wsFile, ws>>
    /\ UNCHANGED <<env, df, gjFile, gj, locals>>

\* with open(replace_extension(filename, "geojson"), 'w') as gj:
OpenGj ==
    /\ pc = "open_gj"
    /\ IF writable[2]
       THEN pc' = "call" /\ gjFile' = "open" /\ gj' = <<>> /\ exc' = exc
       ELSE pc' = "exit_ws" /\ exc' = PermissionError /\ UNCHANGED <<gjFile, gj>>
    /\ UNCHANGED <<env, df, wsFile, ws, locals, status>>

\* dataframe_to_geojson, up to the loop: the initial values and the header.
WriteHeader ==
    /\ pc = "call"
    /\ features' = <<>> /\ src' = <<>>
    /\ lasttime' = 0 /\ lastlat' = 99 /\ lastlon' = 1000
    /\ distance' = 0 /\ bearing' = 0 /\ speed' = 0 /\ dew_point' = 0
    /\ ws' = Append(ws, Header)
    /\ pc' = "rows"
    /\ UNCHANGED <<env, df, wsFile, gjFile, gj, delta, exc, status>>

\* A skip test with the wrong threshold.
SkippedAbove91(row) == row.Lat > 91

\* if row['Lat/PosX'] > 90: continue
Skipped(row) == row.Lat > 90

\* if lasttime: delta = ts - lasttime, else: delta = 0
Delta(ts, last) == IF last # 0 THEN ts - last ELSE 0

\* if lastlat < 90:
HasLast(lat) == lat < 90

\* distance = haversine(row['Lat/PosX'], row['Long/PosY'], lastlat, lastlon)
RowDistance(row, lat, lon) == HaversineOf[<<<<row.Lat, row.Long>>, <<lat, lon>>>>]

\* The bearing with the two points the other way round.
RowBearingFromLast(row, lat, lon) == BearingOf[<<<<lat, lon>>, <<row.Lat, row.Long>>>>]

\* bearing = compute_bearing(row['Lat/PosX'], row['Long/PosY'], lastlat, lastlon)
RowBearing(row, lat, lon) == BearingOf[<<<<row.Lat, row.Long>>, <<lat, lon>>>>]

\* dew_point = calculate_dew_point(row['Baro'], row['AirT'], row['RH'])
RowDewPoint(row) == DewPointOf[<<row.Alt, row.Baro, row.AirT, row.RH>>]

\* speed = distance * 1000/delta
RowSpeed(d, dt) ==
    IF dt = 0 THEN Raises(ZeroDivisionError) ELSE Returns(MulDiv(d, 1000, dt))

\* feature = Feature(geometry=Point(...), properties={...})
MakeFeature(row, dp, dt, d, b, s) ==
    [geometry |-> <<row.Long, row.Lat, row.Alt>>,
     properties |-> [pressure |-> row.Baro, hum |-> row.RH, temp |-> row.AirT,
                     dew_point |-> dp, dT |-> dt, distance |-> d,
                     bearing |-> b, speed |-> s]]

\* The data line ws.write writes for a row.
DataLine(row, dp, b, s) ==
    <<Fmt1(row.Alt, 1), Fmt1(row.Baro, 1), Fmt1(row.AirT, 1),
      Fmt1(dp, Scale), Fmt1(b, Scale), Fmt1(s, 1)>>

\* if delta:
Emits(dt) == dt # 0

\* One turn of the loop on the next row of the DataFrame.
ProcessRow(row) ==
    /\ pc = "rows"
    /\ columns
    /\ Len(df) < MaxRows
    /\ df' = Append(df, row)
    /\ IF Skipped(row)
       THEN UNCHANGED <<pc, files, locals, exc>>
       ELSE
         LET ts == row.Time
             dt == Delta(ts, lasttime)
             d  == RowDistance(row, lastlat, lastlon)
             b  == RowBearing(row, lastlat, lastlon)
             s  == RowSpeed(d, dt)
             dp == RowDewPoint(row)
         IN
         /\ delta' = dt
         /\ lasttime' = ts
         /\ IF ~HasLast(lastlat)
            THEN UNCHANGED <<distance, bearing, speed, dew_point>> /\ exc' = exc
            ELSE /\ distance' = d
                 /\ bearing' = b
                 /\ speed' = IF s.raised = "" THEN s.value ELSE speed
                 /\ dew_point' = IF s.raised = "" /\ dp.raised = ""
                                 THEN dp.value ELSE dew_point
                 /\ exc' = IF s.raised # "" THEN s.raised ELSE dp.raised
         /\ IF exc' # ""
            THEN pc' = "exit_gj" /\ UNCHANGED <<lastlat, lastlon, features, src, files>>
            ELSE /\ lastlat' = row.Lat
                 /\ lastlon' = row.Long
                 /\ pc' = pc
                 /\ IF Emits(dt)
                    THEN /\ features' = Append(features,
                               MakeFeature(row, dew_point', dt, distance', bearing', speed'))
                         /\ src' = Append(src, Len(df'))
                         /\ ws' = Append(ws, DataLine(row, dew_point', bearing', speed'))
                    ELSE UNCHANGED <<features, src, ws>>
                 /\ UNCHANGED <<wsFile, gjFile, gj>>
    /\ UNCHANGED <<env, status>>

\* The first turn of the loop on a DataFrame without the expected columns:
\* row['Lat/PosX'] raises.
MissingColumn ==
    /\ pc = "rows"
    /\ ~columns
    /\ exc' = KeyError
    /\ pc' = "exit_gj"
    /\ UNCHANGED <<env, df, files, locals, status>>

\* A serialization that loses the last feature.
DumpsAllButLast(fs) ==
    [type |-> "FeatureCollection", features |-> SubSeq(fs, 1, Len(fs) - 1)]

\* json.dumps of the FeatureCollection of a list of features.
Dumps(fs) == [type |-> "FeatureCollection", features |-> fs]

\* After the last row: gj.write(json.dumps(feature_collection, indent=2)),
\* and dataframe_to_geojson returns.
Dump ==
    /\ pc = "rows"
    /\ columns \/ df = <<>>
    /\ gj' = Append(gj, Dumps(features))
    /\ pc' = "exit_gj"
    /\ UNCHANGED <<env, df, wsFile, gjFile, ws, locals, exc, status>>

\* A close that is only reached when no exception is propagating.
CloseAtEnd(e, file) == IF e = "" THEN "closed" ELSE file

\* What leaving a with block, normally or by the exception e, makes of its
\* file: the file is closed.
ExitWith(e, file) == "closed"

\* Leaving the inner with block.
ExitGj ==
    /\ pc = "exit_gj"
    /\ gjFile' = ExitWith(exc, gjFile)
    /\ pc' = "exit_ws"
    /\ UNCHANGED <<env, df, wsFile, ws, gj, locals, exc, status>>

\* Leaving the outer with block.
ExitWs ==
    /\ pc = "exit_ws"
    /\ wsFile' = ExitWith(exc, wsFile)
    /\ pc' = "end"
    /\ UNCHANGED <<env, df, gjFile, ws, gj, locals, exc, status>>

\* The end of the script: status 0, or 1 after an exception.
Exit ==
    /\ pc = "end"
    /\ status' = IF exc = "" THEN 0 ELSE 1
    /\ pc' = "exited"
    /\ UNCHANGED <<env, df, files, locals, exc>>

Next ==
    \/ CheckUsage
    \/ ReadCsv
    \/ OpenWs
    \/ OpenGj
    \/ WriteHeader
    \/ \E row \in Rows : ProcessRow(row)
    \/ MissingColumn
    \/ Dump
    \/ ExitGj
    \/ ExitWs
    \/ Exit

Spec == Init /\ [][Next]_vars

-----------------------------------------------------------------------------
(* The rows of df as the claims speak of them. *)

\* Row k is not skipped: its latitude is at most 90.
Valid(k) == df[k].Lat <= 90

\* The row before row k that is not skipped, 0 if there is none.
Prev(k) ==
    LET S == {j \in 1..(k - 1) : Valid(j)}
    IN  IF S = {} THEN 0 ELSE CHOOSE j \in S : \A i \in S : i <= j

\* The last row taken that is not skipped, 0 if there is none.
LastValid == Prev(Len(df) + 1)

\* The loop went through row k without an exception.
Completed(k) == k < Len(df) \/ exc = ""

\* Row k was emitted: a feature was made from it.
Emitted(k) == \E i \in 1..Len(src) : src[i] = k

\* The position of row k.
Position(k) == <<df[k].Lat, df[k].Long>>

\* C1: the speed division is never evaluated with delta = 0: no run raises a
\* division by zero, and the second of two consecutive non-skipped rows with
\* equal timestamps is gone through without an exception and without being
\* emitted.
C1_NoDivisionByZero ==
    /\ exc # ZeroDivisionError
    /\ \A k \in 1..Len(df) :
         (Valid(k) /\ Prev(k) # 0 /\ df[Prev(k)].Time = df[k].Time)
            => (Completed(k) /\ ~Emitted(k))

\* The rows of the end-to-end example. Its positions 10/20 and 10.001/20.001
\* are taken as the neighbouring positions <<10, 20>> and <<11, 21>> of the
\* model, whose positions are whole degrees.
Example == <<Row(0, <<10, 20>>, <<100, 1000, 20, 50>>),
             Row(10, <<11, 21>>, <<110, 999, 19, 55>>)>>

\* C2: the run on the two rows of the example (timestamps 0 and 10) completes
\* with exactly one data line and one feature, both of the second row, with
\* dT = 10 and speed = distance * 1000 / 10.
C2_ExampleRun ==
    (pc = "exited" /\ df = Example) =>
        /\ status = 0
        /\ exc = ""
        /\ src = <<2>>
        /\ Len(features) = 1
        /\ Len(ws) = 2
        /\ features[1].properties.dT = 10
        /\ features[1].properties.speed
              = MulDiv(features[1].properties.distance, 1000, 10)

\* C3: a run on n >= 1 rows that all have a latitude <= 90 and strictly
\* increasing timestamps emits exactly n - 1 samples: every row but the first.
C3_AllButFirstEmitted ==
    ( /\ pc = "exited"
      /\ Len(df) >= 1
      /\ \A k \in 1..Len(df) : Valid(k)
      /\ \A k \in 2..Len(df) : df[k - 1].Time < df[k].Time )
    => /\ Len(features) = Len(df) - 1
       /\ src = [i \in 1..(Len(df) - 1) |-> i + 1]

\* C4: the turn of the loop that takes a row with a latitude above 90 writes
\* no line, adds no feature and leaves the carried state (the last timestamp
\* and position, distance, bearing, speed, dew point and delta) as it was.
C4_SkippedRowChangesNothing ==
    [][ (Len(df') = Len(df) + 1 /\ df'[Len(df')].Lat > 90)
          => UNCHANGED <<pc, files, locals, exc, status>> ]_vars

\* A row above 90 between two rows that are not skipped: the row after it is
\* emitted with the time since the row before it.
C4_Witness ==
    /\ Len(df) = 3
    /\ df[2].Lat > 90
    /\ lastlat < 90
    /\ src = <<3>>
    /\ features[1].properties.dT = df[3].Time - df[1].Time

\* The bearing the loop carries after row k (0 before the first row): the one
\* computed at the last row that had a row below 90 before it.
RECURSIVE CarriedBearing(_)
CarriedBearing(k) ==
    IF k = 0 THEN 0
    ELSE IF Valid(k) /\ Prev(k) # 0 /\ df[Prev(k)].Lat < 90
         THEN BearingOf[<<Position(k), Position(Prev(k))>>]
         ELSE CarriedBearing(k - 1)

\* C5, as the claim states it: the bearing of every emitted sample is
\* compute_bearing from the previous non-skipped row's position (point 1) to
\* the current row's (point 2); here only for previous rows below 90, where
\* the loop computes a bearing at all.
C5_BearingFromPrevious ==
    \A i \in 1..Len(features) :
        LET k == src[i]
        IN  (Prev(k) # 0 /\ df[Prev(k)].Lat < 90) =>
               features[i].properties.bearing
                  = BearingOf[<<Position(Prev(k)), Position(k)>>]

\* C5, amended: the bearing of every emitted sample is compute_bearing from
\* the current row's position (point 1) to the previous non-skipped row's
\* (point 2) when that row's latitude is below 90, and otherwise the bearing
\* carried from the rows before.
C5_BearingToPrevious ==
    \A i \in 1..Len(features) :
        LET k == src[i]
        IN  /\ Prev(k) # 0
            /\ features[i].properties.bearing
                  = IF df[Prev(k)].Lat < 90
                    THEN BearingOf[<<Position(k), Position(Prev(k))>>]
                    ELSE CarriedBearing(Prev(k))

\* A sample emitted after a row at another position below 90, the two
\* bearings between them being different.
C5_Witness ==
    \E i \in 1..Len(features) :
        LET k == src[i]
            c == Position(k)
            p == Position(Prev(k))
        IN  /\ df[Prev(k)].Lat < 90
            /\ c # p
            /\ BearingOf[<<c, p>>] # BearingOf[<<p, c>>]
            /\ features[i].properties.bearing = BearingOf[<<c, p>>]

\* C6: when the script has ended, normally or by an exception, neither output
\* stream is open.
C6_StreamsClosed ==
    pc = "exited" => (wsFile # "open" /\ gjFile # "open")

\* A run ended by an exception raised while a row was processed, with both
\* files opened and closed.
C6_Witness ==
    /\ pc = "exited"
    /\ exc \in {ZeroDivisionError, ValueError}
    /\ Len(df) >= 1
    /\ wsFile = "closed"
    /\ gjFile = "closed"

\* C7: a run that fails (wrong argument count, unreadable input, a missing
\* column, an exception while a row is processed) leaves no output file
\* created or written.
C7_NoFilesAfterFailure ==
    (pc = "exited"
       /\ exc \in {SystemExit, FileNotFoundError, KeyError, ZeroDivisionError, ValueError})
    => /\ wsFile = "absent" /\ ws = <<>>
       /\ gjFile = "absent" /\ gj = <<>>

\* C8: a row with a relative humidity of 0 is never emitted with a finite dew
\* point (every dew point of the model is finite), and it is not left to the
\* exception math.log raises.
C8_HumidityZeroDefined ==
    /\ \A i \in 1..Len(features) : features[i].properties.hum # 0
    /\ exc # ValueError

\* C9: the second of two consecutive non-skipped rows with the same position
\* and different timestamps is gone through without an exception and emitted
\* with distance = 0, bearing = 0 and speed = 0.
C9_SamePositionEmitsZeros ==
    \A k \in 1..Len(df) :
        (Valid(k) /\ Prev(k) # 0 /\ Position(Prev(k)) = Position(k)
           /\ df[Prev(k)].Time # df[k].Time)
        => /\ Completed(k)
           /\ \E i \in 1..Len(features) :
                 /\ src[i] = k
                 /\ features[i].properties.distance = 0
                 /\ features[i].properties.bearing = 0
                 /\ features[i].properties.speed = 0

\* C10: the delta of a non-skipped row is its timestamp minus that of the
\* non-skipped row before it, whatever that timestamp is, and 0 only when
\* there is no such row.
C10_DeltaFromPreviousRow ==
    LastValid # 0 =>
        delta = IF Prev(LastValid) # 0
                THEN df[LastValid].Time - df[Prev(LastValid)].Time
                ELSE 0

\* The atmosphere of row k.
Atmosphere(k) == <<df[k].Alt, df[k].Baro, df[k].AirT, df[k].RH>>

\* C11: the distance, bearing, speed and dew point of every emitted sample
\* are the ones computed from its row and the non-skipped row (latitude <= 90)
\* just before it, never values left from an earlier row or the initial zeros.
C11_SampleComputedFresh ==
    \A i \in 1..Len(features) :
        LET k  == src[i]
            f  == features[i].properties
            d  == HaversineOf[<<Position(k), Position(Prev(k))>>]
            dp == DewPointOf[Atmosphere(k)]
        IN  /\ Prev(k) # 0
            /\ f.distance = d
            /\ f.bearing = BearingOf[<<Position(k), Position(Prev(k))>>]
            /\ f.speed = MulDiv(d, 1000, df[k].Time - df[Prev(k)].Time)
            /\ dp.raised = ""
            /\ f.dew_point = dp.value

\* C12: after a non-skipped row has been processed, lasttime, lastlat and
\* lastlon are that row's timestamp and position, emitted or not; in
\* particular a row with the timestamp of the row before it and another
\* position is gone through and becomes the previous position.
C12_LastIsLastRow ==
    /\ (LastValid # 0 /\ Completed(LastValid)) =>
          /\ lasttime = df[LastValid].Time
          /\ lastlat = df[LastValid].Lat
          /\ lastlon = df[LastValid].Long
    /\ \A k \in 1..Len(df) :
          (Valid(k) /\ Prev(k) # 0 /\ df[Prev(k)].Time = df[k].Time
             /\ Position(Prev(k)) # Position(k))
          => /\ Completed(k)
             /\ k = LastValid => (lastlat = df[k].Lat /\ lastlon = df[k].Long)

\* C13: the turn of the loop on a non-skipped row appends exactly one data
\* line and one feature if the row's delta is not 0 and neither if it is 0;
\* and from the header on there are as many data lines as features.
C13_OneLineOneFeature ==
    [][ /\ (Len(df') = Len(df) + 1 /\ df'[Len(df')].Lat <= 90) =>
             IF delta' # 0
             THEN /\ Len(ws') = Len(ws) + 1
                  /\ Len(features') = Len(features) + 1
             ELSE ws' = ws /\ features' = features
        /\ ws' # <<>> => Len(ws') = Len(features') + 1 ]_vars

\* C14: the speed of every emitted sample is its own distance times 1000
\* divided by its own dT.
C14_SpeedFromDistanceAndDT ==
    \A i \in 1..Len(features) :
        LET f == features[i].properties
        IN  /\ f.dT # 0
            /\ f.speed = MulDiv(f.distance, 1000, f.dT)

\* C15: the header is the first line written and is written once, the
\* data lines and the features are those of the emitted rows in the order of
\* the input, and the feature collection is written to the geospatial stream
\* once, after the loop, with every feature; a run that completes has written
\* it.
C15_HeaderOrderAndSingleDump ==
    /\ ws # <<>> => (ws[1] = Header /\ Len(ws) = Len(features) + 1)
    /\ Len(src) = Len(features)
    /\ \A i \in 1..Len(features) :
          /\ src[i] \in 1..Len(df)
          /\ \A j \in 1..(i - 1) : src[j] < src[i]
          /\ features[i].geometry
                = <<df[src[i]].Long, df[src[i]].Lat, df[src[i]].Alt>>
          /\ features[i].properties.pressure = df[src[i]].Baro
          /\ ws[i + 1] = DataLine(df[src[i]], features[i].properties.dew_point,
                                  features[i].properties.bearing,
                                  features[i].properties.speed)
    /\ Len(gj) <= 1
    /\ gj # <<>> =>
          /\ pc \in {"exit_gj", "exit_ws", "end", "exited"}
          /\ gj[1] = [type |-> "FeatureCollection", features |-> features]
    /\ (pc = "exited" /\ exc = "") => (status = 0 /\ Len(gj) = 1)

\* A completed run on three rows of which the second and the third, two
\* different rows, were emitted in this order and serialized.
C15_Witness ==
    /\ pc = "exited"
    /\ exc = ""
    /\ Len(df) = 3
    /\ src = <<2, 3>>
    /\ features[1] # features[2]
    /\ ws[2] # ws[3]
    /\ gj = <<[type |-> "FeatureCollection", features |-> features]>>
=============================================================================
